---- MODULE Spec2Model ----
(***************************************************************************)
(* State-machine model of the document-sync and question-answering code:   *)
(*   src/document_loader.py  FolderDocumentProcessor                       *)
(*   src/vector_store.py     VectorStoreManager (Qdrant collections)       *)
(*   src/sync_documents.py   sync_module, sync_single_file                 *)
(*   src/rag_chain.py        is_conversational_query, RAGChainBuilder,     *)
(*                           RAGQueryHandler.ask                           *)
(*   src/api.py              get_module_resources, chat                    *)
(* The embedding service, the language model and the Qdrant backend are    *)
(* external: each call to them either answers or raises, chosen by the     *)
(* environment (the `fail` input of an action).                            *)
(***************************************************************************)
EXTENDS Integers, Sequences, FiniteSets, TLC

VARIABLES
    folder,     \* folder[m][f]: the file f of module m's documents folder
    qdrant,     \* qdrant[name]: the collection of that name in the Qdrant backend
    cache,      \* api.py _module_resources
    last,       \* the call that ran last, with what it returned
    inflight,   \* inflight[p]: the call process p has begun and not yet ended
    session     \* app.py: st.session_state and the resources cached by Streamlit

vars == <<folder, qdrant, cache, last, inflight, session>>

-----------------------------------------------------------------------------
(* Bounds of the model *)

\* the Qdrant backend holds at most this many points, all collections together
MaxPoints == 3

\* a text handed to the splitter has at most this many characters
MaxTextLen == 5

\* the splitter is configured with a chunk size of at most this
MaxChunkSize == 3

-----------------------------------------------------------------------------
(* Configuration *)

Modules == {"cgi", "cdt"}

\* MODULES[m]["collection_name"]
CollectionName(m) == IF m = "cgi" THEN "cgi_maroc_docs" ELSE "cdt_maroc_docs"

CollectionNames == { CollectionName(m) : m \in Modules }

\* files a module folder may hold
FileNames == {"a.pdf", "B.docx"}

\* pathlib suffix.lower() of each file name
Suffix(f) == IF f = "a.pdf" THEN ".pdf" ELSE ".docx"

SUPPORTED_EXTENSIONS == {".pdf", ".doc", ".docx"}

\* position of name.lower() in lexicographic order: "a.pdf" < "b.docx"
LowerNameRank(f) == IF f = "a.pdf" THEN 1 ELSE 2

BATCH_SIZE == 100

RETRIEVER_K == 8

-----------------------------------------------------------------------------
(* Files.  A file is absent, unreadable, or has a body: the number of       *)
(* chunks the splitter cuts from each of its pages.                         *)

Absent  == [body |-> << >>, st |-> "absent"]
Corrupt == [body |-> << >>, st |-> "corrupt"]
Readable(b) == [body |-> b, st |-> "ok"]

\* a one-page PDF; a nine-page PDF whose pages 1..7 hold no extractable text
PdfBodies == { <<1>>, <<1, 0, 0, 0, 0, 0, 0, 0, 1>> }

\* a Word document is loaded as one text, here cut into one chunk
DocxBodies == { <<1>> }

\* what the folder of module m may hold under the name f: every kind of file
\* for "cgi"; for "cdt" the one-page PDF or nothing, which is enough to tell
\* its collection from the other one
\* (a Word file that cannot be loaded: see hasDocx)
FileStates(m, f) ==
    IF m = "cdt" THEN (IF f = "a.pdf" THEN {Absent, Readable(<<1>>)} ELSE {Absent})
    ELSE IF Suffix(f) = ".pdf" THEN {Absent, Corrupt} \cup { Readable(b) : b \in PdfBodies }
    ELSE {Absent} \cup { Readable(b) : b \in DocxBodies }

-----------------------------------------------------------------------------
(* src/document_loader.py *)

RECURSIVE SortByLowerName(_)
SortByLowerName(S) ==
    IF S = {} THEN << >>
    ELSE LET f == CHOOSE x \in S : \A y \in S : LowerNameRank(x) <= LowerNameRank(y)
         IN  <<f>> \o SortByLowerName(S \ {f})

\* get_pdf_files: glob of every supported extension, sorted by lower-cased name
GetPdfFiles(fld) ==
    SortByLowerName({ f \in FileNames : fld[f].st # "absent"
                                        /\ Suffix(f) \in SUPPORTED_EXTENSIONS })

\* a load answers its Documents or raises DocumentLoadError; nothing in
\* load_single_pdf raises PDFLoadError
LoadOk(docs) == [ok |-> TRUE,  docs |-> docs,  exc |-> "none", error |-> "none"]
LoadErr(e)   == [ok |-> FALSE, docs |-> << >>, exc |-> "DocumentLoadError", error |-> e]

\* _load_word_document: one Document, page 1
LoadWordDocument(f, fs, m, hasDocx) ==
    IF ~hasDocx THEN LoadErr("python-docx n'est pas installe")
    ELSE IF fs.st # "ok" THEN LoadErr("Erreur lors du chargement")
    ELSE LoadOk(<< [file_name |-> f, module |-> m, page |-> 1, pieces |-> fs.body[1]] >>)

\* load_single_pdf: PyPDFLoader gives one Document per page, numbered from 0;
\* every failure leaves as a DocumentLoadError
LoadSinglePdf(f, fs, m, hasDocx) ==
    IF Suffix(f) = ".pdf" THEN
        IF fs.st # "ok" THEN LoadErr("Erreur lors du chargement")
        ELSE LoadOk([i \in 1..Len(fs.body) |->
                        [file_name |-> f, module |-> m,
                         page |-> i - 1, pieces |-> fs.body[i]]])
    ELSE IF Suffix(f) \in {".doc", ".docx"} THEN LoadWordDocument(f, fs, m, hasDocx)
    ELSE LoadErr("Format non supporte")

\* the text splitter: the pieces of each Document in turn, each with the
\* Document's metadata
RECURSIVE SplitterSplit(_)
SplitterSplit(docs) ==
    IF docs = << >> THEN << >>
    ELSE LET d == Head(docs)
         IN  [k \in 1..d.pieces |->
                 [file_name |-> d.file_name,
                  module |-> d.module,
                  page |-> d.page,
                  content |-> <<d.page, k>>]]
             \o SplitterSplit(Tail(docs))

\* a numbering of the chunks that restarts on every page
SplitDocumentsPerPage(docs, f, m) ==
    LET chunks == SplitterSplit(docs)
    IN  [i \in 1..Len(chunks) |->
            [file_name |-> f,
             module |-> m,
             page |-> chunks[i].page,
             content |-> chunks[i].content,
             chunk_id |-> chunks[i].content[2] - 1]]

\* split_documents: chunk_id = position in the file's chunk list, from 0
SplitDocuments(docs, f, m) ==
    LET chunks == SplitterSplit(docs)
    IN  [i \in 1..Len(chunks) |->
            [file_name |-> f,
             module |-> m,
             page |-> chunks[i].page,
             content |-> chunks[i].content,
             chunk_id |-> i - 1]]

\* process_single_file
ProcessSingleFile(f, fs, m, hasDocx) ==
    LET ld == LoadSinglePdf(f, fs, m, hasDocx)
    IN  IF ld.ok THEN [ok |-> TRUE,
                       exc |-> "none",
                       error |-> "none",
                       chunks |-> SplitDocuments(ld.docs, f, m)]
        ELSE [ok |-> FALSE, exc |-> ld.exc, error |-> ld.error, chunks |-> << >>]

\* one turn of the loop of process_all_files: the file's result is yielded,
\* also for a PDFLoadError; any other exception leaves the generator
ProcessAllFilesStep(f, fs, m, hasDocx) ==
    LET r == ProcessSingleFile(f, fs, m, hasDocx)
    IN  IF r.ok THEN [error |-> "none", chunks |-> r.chunks, raised |-> FALSE, success |-> TRUE]
        ELSE IF r.exc = "PDFLoadError"
             THEN [error |-> r.error, chunks |-> << >>, raised |-> FALSE, success |-> FALSE]
        ELSE [error |-> r.error, chunks |-> << >>, raised |-> TRUE, success |-> FALSE]

-----------------------------------------------------------------------------
(* src/vector_store.py *)

Range(seq) == { seq[i] : i \in 1..Len(seq) }

NoCollection == [exists |-> FALSE, points |-> {}]

Count(c) == Cardinality(c.points)

\* the payload of a point: what a search hands back of it
Payload(p) == [file_name |-> p.file_name,
               module |-> p.module,
               page |-> p.page,
               content |-> p.content,
               chunk_id |-> p.chunk_id]

FilePoints(c, f) == { p \in c.points : p.file_name = f }

Ids(points) == { p.id : p \in points }

PointIdOfContent(points, doc) == <<doc, 0>>

\* str(uuid4()): an identifier no point of the collection carries.  Identifiers
\* are only compared for equality, so the fresh one is drawn as <<doc, n>>
\* with the least n not in use
PointId(points, doc) ==
    LET n == CHOOSE k \in 0..Cardinality(points) :
                 /\ <<doc, k>> \notin Ids(points)
                 /\ \A j \in 0..(k - 1) : <<doc, j>> \in Ids(points)
    IN  <<doc, n>>

\* client.upsert of one point: a point with the same id is replaced
Upsert(points, p) == { q \in points : q.id # p.id } \cup {p}

RECURSIVE UpsertBatch(_, _)
UpsertBatch(points, batch) ==
    IF batch = << >> THEN points
    ELSE LET d == Head(batch)
             p == [file_name |-> d.file_name,
                   module |-> d.module,
                   page |-> d.page,
                   content |-> d.content,
                   chunk_id |-> d.chunk_id,
                   id |-> PointId(points, d)]
         IN  UpsertBatch(Upsert(points, p), Tail(batch))

\* create_collection: no-op when the collection exists
CreateCollection(c) == IF c.exists THEN c ELSE [exists |-> TRUE, points |-> {}]

Min(a, b) == IF a < b THEN a ELSE b

\* what the environment lets a call run into
\* (`file`: the file whose add_documents call it hits, in a full sync)
NoFail == [at |-> 0, file |-> "-", kind |-> "none"]
\* get_openai_api_key raises
KeyFail(f) == [at |-> 0, file |-> f, kind |-> "key"]
\* the Qdrant backend raises
IndexFail(f) == [at |-> 0, file |-> f, kind |-> "index"]
\* embedding or upsert of batch j raises
BatchFail(f, j) == [at |-> j, file |-> f, kind |-> "batch"]

\* a loop of add_documents in which the failure of a batch shows only after
\* the batch was written
AddBatchesThenFail(q, name, documents, batch_size, i, fail) ==
    LET fails == fail.kind = "batch" /\ fail.at * batch_size < Len(documents)
        upto == IF fails THEN Min((fail.at + 1) * batch_size, Len(documents))
                ELSE Len(documents)
    IN  [error |-> IF fails THEN "embedding or upsert failed" ELSE "none",
         raised |-> fails,
         q |-> [q EXCEPT ![name].points =
                             UpsertBatch(q[name].points, SubSeq(documents, i + 1, upto))]]

\* the loop of add_documents from offset i: batch after batch, each embedded
\* and then upserted as a whole
RECURSIVE AddBatches(_, _, _, _, _, _)
AddBatches(q, name, documents, batch_size, i, fail) ==
    IF i >= Len(documents) THEN [error |-> "none", raised |-> FALSE, q |-> q]
    ELSE IF fail.kind = "batch" /\ fail.at = i \div batch_size
         THEN [error |-> "embedding or upsert failed", raised |-> TRUE, q |-> q]
    ELSE LET batch == SubSeq(documents, i + 1, Min(i + batch_size, Len(documents)))
         IN  AddBatches([q EXCEPT ![name].points = UpsertBatch(q[name].points, batch)],
                        name, documents, batch_size, i + batch_size, fail)

\* add_documents
AddDocuments(q, name, documents, batch_size, fail) ==
    IF fail.kind = "key" THEN [error |-> "Cle API OpenAI non trouvee", raised |-> TRUE, q |-> q]
    ELSE IF fail.kind = "index" THEN [error |-> "qdrant unreachable", raised |-> TRUE, q |-> q]
    ELSE AddBatches([q EXCEPT ![name] = CreateCollection(q[name])],
                    name, documents, batch_size, 0, fail)

DeleteByFileKeeps(q, name, f, fail) ==
    IF fail.kind = "index" THEN [error |-> "qdrant unreachable", raised |-> TRUE, q |-> q]
    ELSE IF ~q[name].exists THEN [error |-> "collection not found", raised |-> TRUE, q |-> q]
    ELSE [error |-> "none", raised |-> FALSE, q |-> q]

DeleteByFileAll(q, name, f, fail) ==
    IF fail.kind = "index" THEN [error |-> "qdrant unreachable", raised |-> TRUE, q |-> q]
    ELSE IF ~q[name].exists THEN [error |-> "collection not found", raised |-> TRUE, q |-> q]
    ELSE [error |-> "none", raised |-> FALSE, q |-> [q EXCEPT ![name].points = {}]]

\* delete_by_file: Qdrant answers an error for a collection that does not exist
DeleteByFile(q, name, f, fail) ==
    IF fail.kind = "index" THEN [error |-> "qdrant unreachable", raised |-> TRUE, q |-> q]
    ELSE IF ~q[name].exists THEN [error |-> "collection not found", raised |-> TRUE, q |-> q]
    ELSE [error |-> "none",
          raised |-> FALSE,
          q |-> [q EXCEPT ![name].points = { p \in q[name].points : p.file_name # f }]]

\* the Qdrant backend raises in get_collections, which collection_exists
\* catches, answering False
ExistsFail == [at |-> 0, file |-> "-", kind |-> "exists"]
\* the Qdrant backend raises in delete_collection
ClearFail == [at |-> 0, file |-> "-", kind |-> "clear"]

\* clear_collection: drop and recreate the collection, if collection_exists
\* says it is there
ClearCollection(q, name, fail) ==
    IF fail.kind = "exists" \/ ~q[name].exists
    THEN [error |-> "none", raised |-> FALSE, q |-> q]
    ELSE IF fail.kind = "clear"
    THEN [error |-> "qdrant unreachable", raised |-> TRUE, q |-> q]
    ELSE [error |-> "none",
          raised |-> FALSE,
          q |-> [q EXCEPT ![name] = CreateCollection(NoCollection)]]

\* get_collection_info
GetCollectionInfo(q, name) ==
    IF ~q[name].exists THEN [exists |-> FALSE, count |-> 0]
    ELSE [exists |-> TRUE, count |-> Count(q[name])]

\* The similarity scores come from the embedding service: a ranking is an
\* order they put the collection's points in, a scored ranking the points in
\* that order with their scores, highest first.
Rankings(points) ==
    { r \in [1..Cardinality(points) -> points] : \A i, j \in DOMAIN r : i # j => r[i] # r[j] }

Scores == {1, 2}

Hit(p, score) == [score |-> score, point |-> p]

ScoredRankings(points) ==
    { [i \in DOMAIN r |-> Hit(r[i], s[i])] :
        r \in Rankings(points),
        s \in { t \in [1..Cardinality(points) -> Scores] :
                  \A i, j \in DOMAIN t : i < j => t[i] >= t[j] } }

\* client.search(limit = k): the k best hits, best first
ClientSearch(ranking, limit) == SubSeq(ranking, 1, Min(limit, Len(ranking)))

\* the Document made of a hit: its payload, and its score
SearchDocument(hit) ==
    [file_name |-> hit.point.file_name,
     module |-> hit.point.module,
     page |-> hit.point.page,
     content |-> hit.point.content,
     chunk_id |-> hit.point.chunk_id,
     score |-> hit.score]

SimilaritySearchNoLimit(q, name, k, ranking, failEmbed, failSearch) ==
    IF failEmbed
    THEN [error |-> "embedding failed",
          raised |-> TRUE,
          documents |-> << >>,
          calls |-> <<"embed_query">>]
    ELSE IF failSearch
    THEN [error |-> "qdrant unreachable",
          raised |-> TRUE,
          documents |-> << >>,
          calls |-> <<"embed_query", "search">>]
    ELSE IF ~q[name].exists
    THEN [error |-> "collection not found",
          raised |-> TRUE,
          documents |-> << >>,
          calls |-> <<"embed_query", "search">>]
    ELSE [error |-> "none",
          raised |-> FALSE,
          documents |-> [i \in 1..Len(ranking) |-> SearchDocument(ranking[i])],
          calls |-> <<"embed_query", "search">>]

\* similarity_search: embed the query, search, turn the hits into Documents
SimilaritySearch(q, name, k, ranking, failEmbed, failSearch) ==
    IF failEmbed
    THEN [error |-> "embedding failed",
          raised |-> TRUE,
          documents |-> << >>,
          calls |-> <<"embed_query">>]
    ELSE IF failSearch
    THEN [error |-> "qdrant unreachable",
          raised |-> TRUE,
          documents |-> << >>,
          calls |-> <<"embed_query", "search">>]
    ELSE IF ~q[name].exists
    THEN [error |-> "collection not found",
          raised |-> TRUE,
          documents |-> << >>,
          calls |-> <<"embed_query", "search">>]
    ELSE LET results == ClientSearch(ranking, k)
         IN  [error |-> "none",
              raised |-> FALSE,
              documents |-> [i \in 1..Len(results) |-> SearchDocument(results[i])],
              calls |-> <<"embed_query", "search">>]

\* get_retriever(search_kwargs): the k of the retriever it returns
GetRetrieverK(search_kwargs) ==
    IF "k" \in DOMAIN search_kwargs THEN search_kwargs["k"] ELSE 8

\* points in the backend, all collections together
TotalPoints(q) ==
    LET RECURSIVE Sum(_)
        Sum(S) == IF S = {} THEN 0
                  ELSE LET n == CHOOSE x \in S : TRUE IN Count(q[n]) + Sum(S \ {n})
    IN  Sum(DOMAIN q)

-----------------------------------------------------------------------------
(* src/rag_chain.py: is_conversational_query.  A question is a string;      *)
(* Len, SubSeq and \o work on strings character by character.               *)

Char(s, i) == SubSeq(s, i, i)

UpperChars == "ABCDEFGHIJKLMNOPQRSTUVWXYZÀÂÇÉÈÊÎÔÙ"
LowerChars == "abcdefghijklmnopqrstuvwxyzàâçéèêîôù"

\* str.lower() of one character
LowerChar(c) ==
    IF \E i \in 1..Len(UpperChars) : Char(UpperChars, i) = c
    THEN Char(LowerChars, CHOOSE i \in 1..Len(UpperChars) : Char(UpperChars, i) = c)
    ELSE c

\* str.lower()
RECURSIVE Lower(_)
Lower(s) == IF Len(s) = 0 THEN ""
            ELSE LowerChar(Char(s, 1)) \o Lower(SubSeq(s, 2, Len(s)))

Whitespace == {" ", "\t", "\n", "\r"}

\* str.strip()
RECURSIVE LStrip(_)
LStrip(s) == IF Len(s) > 0 /\ Char(s, 1) \in Whitespace
             THEN LStrip(SubSeq(s, 2, Len(s))) ELSE s

RECURSIVE RStrip(_)
RStrip(s) == IF Len(s) > 0 /\ Char(s, Len(s)) \in Whitespace
             THEN RStrip(SubSeq(s, 1, Len(s) - 1)) ELSE s

Strip(s) == RStrip(LStrip(s))

StartsWith(s, prefix) == Len(prefix) <= Len(s) /\ SubSeq(s, 1, Len(prefix)) = prefix

\* Python's `keyword in s`
Contains(s, keyword) ==
    \E i \in 1..(Len(s) - Len(keyword) + 1) : SubSeq(s, i, i + Len(keyword) - 1) = keyword

\* each pattern is ^(alternatives), the last two ^(alternatives)$;
\* a class [ -] is written out as its two alternatives
CONVERSATIONAL_PATTERNS_NoThanks ==
    << [alts |-> {"salut", "bonjour", "bonsoir", "hello", "hi", "hey", "coucou"},
        whole |-> FALSE],
       [alts |-> {"ça va", "comment vas", "comment tu vas", "tu vas bien", "comment allez"},
        whole |-> FALSE],
       [alts |-> {"au revoir", "bye", "à bientôt", "à plus"}, whole |-> FALSE],
       [alts |-> {"qui es tu", "qui es-tu", "tu es qui", "c'est quoi",
                  "présente toi", "présente-toi"}, whole |-> FALSE],
       [alts |-> {"ok", "d'accord", "compris", "super", "parfait", "génial", "cool"},
        whole |-> TRUE],
       [alts |-> {"oui", "non", "ouais", "nope"}, whole |-> TRUE] >>

CONVERSATIONAL_PATTERNS ==
    << [alts |-> {"salut", "bonjour", "bonsoir", "hello", "hi", "hey", "coucou"},
        whole |-> FALSE],
       [alts |-> {"ça va", "comment vas", "comment tu vas", "tu vas bien", "comment allez"},
        whole |-> FALSE],
       [alts |-> {"merci", "thanks", "thank you"}, whole |-> FALSE],
       [alts |-> {"au revoir", "bye", "à bientôt", "à plus"}, whole |-> FALSE],
       [alts |-> {"qui es tu", "qui es-tu", "tu es qui", "c'est quoi",
                  "présente toi", "présente-toi"}, whole |-> FALSE],
       [alts |-> {"ok", "d'accord", "compris", "super", "parfait", "génial", "cool"},
        whole |-> TRUE],
       [alts |-> {"oui", "non", "ouais", "nope"}, whole |-> TRUE] >>

\* re.search(pattern, s): ^ anchors at the start; $ matches at the end or
\* before a newline that ends the string
ReSearch(pattern, s) ==
    \E a \in pattern.alts :
        IF pattern.whole THEN s = a \/ s = a \o "\n" ELSE StartsWith(s, a)

FISCAL_KEYWORDS_NoRate ==
    {"impôt", "taxe", "is", "ir", "fiscal", "article", "cgi",
     "déclar", "exonér", "société", "revenu", "bénéfice", "auto-entrepreneur"}

FISCAL_KEYWORDS ==
    {"impôt", "taxe", "tva", "is", "ir", "fiscal", "taux", "article", "cgi",
     "déclar", "exonér", "société", "revenu", "bénéfice", "auto-entrepreneur"}

ShortQueryLengthUpTo15(s) == Len(s) <= 15

ShortQueryLength(s) == Len(s) < 15

is_conversational_query(question) ==
    LET question_lower == Strip(Lower(question))
    IN  IF \E i \in 1..Len(CONVERSATIONAL_PATTERNS) :
               ReSearch(CONVERSATIONAL_PATTERNS[i], question_lower)
        THEN TRUE
        ELSE IF ShortQueryLength(question_lower)
                /\ ~\E keyword \in FISCAL_KEYWORDS : Contains(question_lower, keyword)
        THEN TRUE
        ELSE FALSE

-----------------------------------------------------------------------------
(* The text splitter of src/document_loader.py: RecursiveCharacterTextSplitter *)
(* with length_function = len, keep_separator and strip_whitespace at their *)
(* defaults.  A chunk is recorded with `carried`: the text the splitter     *)
(* kept from the chunk before it to start this one.                         *)

\* separators=["\n\n", "\n", ".", " ", ""]
SEPARATORS == << "\n\n", "\n", ".", " ", "" >>

\* "".join(parts)
RECURSIVE JoinParts(_)
JoinParts(parts) == IF parts = << >> THEN "" ELSE Head(parts) \o JoinParts(Tail(parts))

\* the place of the first occurrence of separator in text, 0 if there is none
FirstMatch(text, separator) ==
    LET at == { i \in 1..(Len(text) - Len(separator) + 1) :
                   SubSeq(text, i, i + Len(separator) - 1) = separator }
    IN  IF at = {} THEN 0 ELSE CHOOSE i \in at : \A j \in at : i <= j

\* re.split on the separator, each separator kept at the start of the piece
\* that follows it
RECURSIVE ReSplitKeepStart(_, _)
ReSplitKeepStart(text, separator) ==
    LET i == FirstMatch(text, separator)
    IN  IF i = 0 THEN << text >>
        ELSE LET rest == ReSplitKeepStart(SubSeq(text, i + Len(separator), Len(text)),
                                          separator)
             IN  << SubSeq(text, 1, i - 1), separator \o Head(rest) >> \o Tail(rest)

\* _split_text_with_regex: the pieces that are not empty; with the empty
\* separator the characters of the text
SplitTextWithRegex(text, separator) ==
    IF separator = ""
    THEN [i \in 1..Len(text) |-> Char(text, i)]
    ELSE SelectSeq(ReSplitKeepStart(text, separator), LAMBDA piece : piece # "")

\* _join_docs: the pieces joined and stripped; "" stands for None
JoinDocs(docs) == Strip(JoinParts(docs))

\* the length of the pieces of current_doc together
RECURSIVE TotalLen(_)
TotalLen(docs) == IF docs = << >> THEN 0 ELSE Len(Head(docs)) + TotalLen(Tail(docs))

\* a splitter that never drops a piece of the chunk it has emitted
KeepOverlapAll(current_doc, len, chunk_size, chunk_overlap) == current_doc

\* the while loop of _merge_splits: pieces leave current_doc from its front
\* until what is left is no longer than the overlap and fits the chunk size
\* beside the next piece (of length len)
RECURSIVE KeepOverlap(_, _, _, _)
KeepOverlap(current_doc, len, chunk_size, chunk_overlap) ==
    LET total == TotalLen(current_doc)
    IN  IF total > chunk_overlap \/ (total + len > chunk_size /\ total > 0)
        THEN KeepOverlap(Tail(current_doc), len, chunk_size, chunk_overlap)
        ELSE current_doc

\* a chunk the splitter emits
Chunk(text, carried) == [text |-> text, carried |-> carried]

\* the for loop of _merge_splits over the pieces still to come; carried is
\* what current_doc held when it was last cut down to the overlap
RECURSIVE MergeLoop(_, _, _, _, _)
MergeLoop(splits, current_doc, carried, chunk_size, chunk_overlap) ==
    IF splits = << >>
    THEN IF JoinDocs(current_doc) = "" THEN << >>
         ELSE << Chunk(JoinDocs(current_doc), Strip(carried)) >>
    ELSE
      LET d == Head(splits)
      IN  IF TotalLen(current_doc) + Len(d) > chunk_size /\ current_doc # << >>
          THEN LET kept == KeepOverlap(current_doc, Len(d), chunk_size, chunk_overlap)
                   emitted == IF JoinDocs(current_doc) = "" THEN << >>
                              ELSE << Chunk(JoinDocs(current_doc), Strip(carried)) >>
               IN  emitted \o MergeLoop(Tail(splits), Append(kept, d), JoinParts(kept),
                                        chunk_size, chunk_overlap)
          ELSE MergeLoop(Tail(splits), Append(current_doc, d), carried,
                         chunk_size, chunk_overlap)

\* _merge_splits (the separator between pieces is "": it is kept in them)
MergeSplits(splits, chunk_size, chunk_overlap) ==
    MergeLoop(splits, << >>, "", chunk_size, chunk_overlap)

\* _split_text: split on the first separator the text holds; pieces shorter
\* than the chunk size are merged, the others split on the separators left
RECURSIVE SplitTextOn(_, _, _, _)
RECURSIVE SplitLoop(_, _, _, _, _)
SplitLoop(splits, good_splits, new_separators, chunk_size, chunk_overlap) ==
    LET merged == IF good_splits = << >> THEN << >>
                  ELSE MergeSplits(good_splits, chunk_size, chunk_overlap)
    IN  IF splits = << >> THEN merged
        ELSE LET s == Head(splits)
             IN  IF Len(s) < chunk_size
                 THEN SplitLoop(Tail(splits), Append(good_splits, s), new_separators,
                                chunk_size, chunk_overlap)
                 ELSE merged
                      \o (IF new_separators = << >> THEN << Chunk(s, "") >>
                          ELSE SplitTextOn(s, new_separators, chunk_size, chunk_overlap))
                      \o SplitLoop(Tail(splits), << >>, new_separators,
                                   chunk_size, chunk_overlap)

SplitTextOn(text, separators, chunk_size, chunk_overlap) ==
    LET found == { i \in 1..Len(separators) :
                      separators[i] = "" \/ FirstMatch(text, separators[i]) # 0 }
        i == IF found = {} THEN Len(separators)
             ELSE CHOOSE j \in found : \A k \in found : j <= k
        separator == separators[i]
        new_separators == IF separator = "" \/ found = {} THEN << >>
                          ELSE SubSeq(separators, i + 1, Len(separators))
    IN  SplitLoop(SplitTextWithRegex(text, separator), << >>, new_separators,
                  chunk_size, chunk_overlap)

\* split_text of the splitter _create_text_splitter builds
SplitText(text, chunk_size, chunk_overlap) ==
    SplitTextOn(text, SEPARATORS, chunk_size, chunk_overlap)

-----------------------------------------------------------------------------
(* src/rag_chain.py: RAGChainBuilder and RAGQueryHandler *)
\* the questions put to a module's query handler
QueryQuestions == {"Bonjour", "Quel est le taux de TVA ?"}

\* questions put to the classifier: a text, with white space around it
QuestionTexts ==
    {"Bonjour", "BONJOUR", "salut", "Hello there", "hi", "Hey!", "coucou",
     "Bonsoir à tous les fiscalistes", "history",
     "ça va", "ÇA VA ?", "Comment vas-tu", "comment tu vas", "tu vas bien",
     "Comment allez-vous aujourd'hui ?",
     "Merci beaucoup", "merci", "THANKS", "Thank you",
     "Merci beaucoup pour votre aide sur la taxe",
     "Au revoir", "bye", "À bientôt", "à plus",
     "Qui es-tu ?", "qui es tu", "tu es qui", "C'est quoi la TVA ?",
     "Présente-toi", "présente toi",
     "ok", "OK", "d'accord", "Compris", "super", "parfait", "Génial", "cool",
     "oui", "Non", "ouais", "nope",
     "ok pour la TVA", "oui mais la taxe ?", "okay", "super bénéfice",
     "non merci, je cherche le taux",
     "", "a", "et alors ?", "Quel délai ?", "pourquoi", "pourquoi donc?", "pourquoi donc ?",
     "pourquoi donc ??", "Quelle heure est-il maintenant",
     "Taux TVA?", "la TVA", "IS", "cgi", "l'impôt", "article 5", "paris", "plaisir",
     "Quel est le taux de TVA ?",
     "Quel est le taux de TVA sur les produits alimentaires ?"}

LeadingSpace == {"", "  ", "\t"}
TrailingSpace == {"", " ", " \n"}

Questions ==
    { lead \o text \o trail :
        lead \in LeadingSpace, text \in QuestionTexts, trail \in TrailingSpace }

\* is_conversational_query on these questions, evaluated once
QueryClassification ==
    [question \in Questions |-> is_conversational_query(question)]

IsConversationalQuery(question) == QueryClassification[question]


\* list(set(...)) of page numbers, as CPython builds and walks a set: an open
\* hash table of 8 slots (hash(n) = n), probed from slot n & mask and, on a
\* collision, from (5 i + 1 + perturb) & mask with perturb shifted right by 5;
\* in a table of 32 slots or more the 9 slots after a probed one are tried
\* first.  The table is quadrupled when three fifths of it are filled.
RECURSIVE PySetProbe(_, _, _, _, _)
PySetProbe(table, mask, i, perturb, key) ==
    LET probes == IF i + 9 <= mask THEN 9 ELSE 0
        hits == { j \in i..(i + probes) : table[j] = -1 \/ table[j] = key }
    IN  IF hits # {} THEN CHOOSE j \in hits : \A h \in hits : j <= h
        ELSE PySetProbe(table, mask, (i * 5 + 1 + (perturb \div 32)) % (mask + 1),
                        perturb \div 32, key)

PySetInsert(table, mask, key) ==
    [table EXCEPT ![PySetProbe(table, mask, key % (mask + 1), key, key)] = key]

RECURSIVE PySetNewSize(_, _)
PySetNewSize(size, minused) ==
    IF size <= minused THEN PySetNewSize(2 * size, minused) ELSE size

\* the entries of a table in slot order
RECURSIVE PySetEntries(_, _, _)
PySetEntries(table, mask, i) ==
    IF i > mask THEN << >>
    ELSE (IF table[i] = -1 THEN << >> ELSE <<table[i]>>) \o PySetEntries(table, mask, i + 1)

RECURSIVE PySetInsertAll(_, _, _)
PySetInsertAll(table, mask, keys) ==
    IF keys = << >> THEN table
    ELSE PySetInsertAll(PySetInsert(table, mask, Head(keys)), mask, Tail(keys))

PySetResize(set) ==
    LET size == PySetNewSize(8, 4 * set.fill)
    IN  [table |-> PySetInsertAll([i \in 0..(size - 1) |-> -1], size - 1,
                                  PySetEntries(set.table, set.mask, 0)),
         mask |-> size - 1, fill |-> set.fill]

PySetAdd(set, key) ==
    IF key \in Range(PySetEntries(set.table, set.mask, 0)) THEN set
    ELSE LET added == [set EXCEPT !.table = PySetInsert(set.table, set.mask, key),
                                  !.fill = set.fill + 1]
         IN  IF added.fill * 5 >= added.mask * 3 THEN PySetResize(added) ELSE added

RECURSIVE PySetAddAll(_, _)
PySetAddAll(set, keys) ==
    IF keys = << >> THEN set ELSE PySetAddAll(PySetAdd(set, Head(keys)), Tail(keys))

ListOfSet(keys) ==
    LET set == PySetAddAll([table |-> [i \in 0..7 |-> -1], mask |-> 7, fill |-> 0], keys)
    IN  PySetEntries(set.table, set.mask, 0)

\* _format_documents: one "[Source i - Page p]" fragment per document, in
\* order; kept here as the pages p ("Aucun contexte disponible." when empty)
FormatDocuments(documents) == [i \in 1..Len(documents) |-> documents[i].page]

Raise(error, calls) ==
    [error |-> error,
     raised |-> TRUE,
     calls |-> calls,
     answer |-> "none",
     context |-> << >>]

InvokeRagChain(q, name, question, ranking, fail) ==
    IF fail = "key" THEN Raise("Cle API OpenAI non trouvee", << >>)
    ELSE LET found == SimilaritySearch(q, name, GetRetrieverK([k |-> RETRIEVER_K]), ranking,
                                       fail = "embed1", fail = "search1")
         IN  IF found.raised THEN Raise(found.error, found.calls)
             ELSE IF fail = "generate"
             THEN Raise("generation failed", found.calls \o <<"generate_rag">>)
             ELSE [error |-> "none",
                   raised |-> FALSE,
                   calls |-> found.calls \o <<"generate_rag">>,
                   answer |-> "rag_answer",
                   context |-> FormatDocuments(found.documents)]

\* RAGChainBuilder.invoke: the conversational chain (persona prompt | llm) or
\* the RAG chain (retriever | _format_documents, prompt, llm).  `fail` names
\* the call that raises: "key" (get_openai_api_key), "embed1", "search1",
\* "generate", and for ask "embed2", "search2"
Invoke(q, name, question, ranking, fail) ==
    IF IsConversationalQuery(question)
    THEN IF fail = "key" THEN Raise("Cle API OpenAI non trouvee", << >>)
         ELSE IF fail = "generate" THEN Raise("generation failed", <<"generate_persona">>)
         ELSE [error |-> "none",
               raised |-> FALSE,
               calls |-> <<"generate_persona">>,
               answer |-> "persona_answer",
               context |-> << >>]
    ELSE IF fail = "key" THEN Raise("Cle API OpenAI non trouvee", << >>)
         ELSE LET found == SimilaritySearch(q, name, GetRetrieverK([k |-> RETRIEVER_K]), ranking,
                                            fail = "embed1", fail = "search1")
              IN  IF found.raised THEN Raise(found.error, found.calls)
                  ELSE IF fail = "generate"
                  THEN Raise("generation failed", found.calls \o <<"generate_rag">>)
                  ELSE [error |-> "none",
                        raised |-> FALSE,
                        calls |-> found.calls \o <<"generate_rag">>,
                        answer |-> "rag_answer",
                        context |-> FormatDocuments(found.documents)]

\* RAGChainBuilder.get_relevant_documents
GetRelevantDocuments(q, name, question, k, ranking, fail) ==
    SimilaritySearch(q, name, k, ranking, fail = "embed2", fail = "search2")

\* the try block of RAGQueryHandler.ask from the return of rag_chain.invoke
\* on: answer is what invoke returned or raised, q the store as it is now
AskAfterInvoke(answer, q, name, question, ranking, fail) ==
    LET is_conversational == IsConversationalQuery(question)
    IN  IF answer.raised
        THEN [error |-> answer.error,
              raised |-> TRUE,
              calls |-> answer.calls,
              answer |-> "none",
              context |-> << >>,
              is_conversational |-> FALSE,
              sources |-> << >>]
        ELSE IF is_conversational
        THEN [error |-> "none",
              raised |-> FALSE,
              calls |-> answer.calls,
              answer |-> answer.answer,
              context |-> answer.context,
              is_conversational |-> TRUE,
              sources |-> << >>]
        ELSE LET sources == GetRelevantDocuments(q, name, question, RETRIEVER_K, ranking, fail)
             IN  IF sources.raised
                 THEN [error |-> sources.error,
                       raised |-> TRUE,
                       calls |-> answer.calls \o sources.calls,
                       answer |-> "none",
                       context |-> << >>,
                       is_conversational |-> FALSE,
                       sources |-> << >>]
                 ELSE [error |-> "none",
                       raised |-> FALSE,
                       calls |-> answer.calls \o sources.calls,
                       answer |-> answer.answer,
                       context |-> answer.context,
                       is_conversational |-> FALSE,
                       sources |-> ListOfSet([i \in 1..Len(sources.documents) |->
                                                 sources.documents[i].page])]

\* the try block of RAGQueryHandler.ask
AskTry(q, name, question, ranking, fail) ==
    AskAfterInvoke(Invoke(q, name, question, ranking, fail), q, name, question, ranking, fail)

\* `except Exception` of RAGQueryHandler.ask: what the try block raised
\* becomes a result
AskExcept(r) ==
    IF r.raised
    THEN [error |-> r.error,
          raised |-> FALSE,
          success |-> FALSE,
          calls |-> r.calls,
          answer |-> "none",
          context |-> << >>,
          is_conversational |-> FALSE,
          sources |-> << >>]
    ELSE [error |-> "none",
          raised |-> FALSE,
          success |-> TRUE,
          calls |-> r.calls,
          answer |-> r.answer,
          context |-> r.context,
          is_conversational |-> r.is_conversational,
          sources |-> r.sources]

AskUncaught(q, name, question, ranking, fail) ==
    LET r == AskTry(q, name, question, ranking, fail)
    IN  [error |-> r.error,
         raised |-> r.raised,
         success |-> ~r.raised,
         calls |-> r.calls,
         answer |-> r.answer,
         context |-> r.context,
         is_conversational |-> r.is_conversational,
         sources |-> r.sources]

\* RAGQueryHandler.ask: the try block, and `except Exception` turning what it
\* raised into a result
Ask(q, name, question, ranking, fail) ==
    AskExcept(AskTry(q, name, question, ranking, fail))

-----------------------------------------------------------------------------
(* src/api.py *)

EmptyIndexError == "La base vectorielle est vide. Executez: python sync_documents.py"

NotCached == [cached |-> FALSE, num_vectors |-> 0]

\* get_module_resources.  `fail`: "exists" (collection_exists catches the
\* backend's error and answers False), "info" (client.get_collection raises)
GetModuleResources(c, q, m, fail) ==
    IF c[m].cached
    THEN [cache |-> c, error |-> "none", success |-> TRUE, num_vectors |-> c[m].num_vectors]
    ELSE
      LET exists == q[CollectionName(m)].exists /\ fail # "exists"
      IN  IF exists /\ fail = "info"
          THEN [cache |-> c,
                error |-> "qdrant unreachable",
                success |-> FALSE,
                num_vectors |-> 0]
          ELSE
            LET collection_info ==
                    IF exists THEN GetCollectionInfo(q, CollectionName(m))
                    ELSE [exists |-> FALSE, count |-> 0]
            IN  IF ~collection_info.exists \/ collection_info.count = 0
                THEN [cache |-> c,
                      error |-> EmptyIndexError,
                      success |-> FALSE,
                      num_vectors |-> 0]
                ELSE [cache |-> [c EXCEPT ![m] = [cached |-> TRUE,
                                                  num_vectors |-> collection_info.count]],
                      error |-> "none",
                      success |-> TRUE,
                      num_vectors |-> collection_info.count]

\* chat: the ChatResponse, and the calls made to the services on the way
ChatRun(c, q, m, message, ranking, fail) ==
    LET resources == GetModuleResources(c, q, m, fail)
    IN  IF ~resources.success
        THEN [cache |-> resources.cache,
              error |-> resources.error,
              success |-> FALSE,
              calls |-> << >>,
              answer |-> "none"]
        ELSE LET result == Ask(q, CollectionName(m), message, ranking, fail)
             IN  [cache |-> resources.cache,
                  error |-> result.error,
                  success |-> result.success,
                  calls |-> result.calls,
                  answer |-> result.answer]

-----------------------------------------------------------------------------
(* src/sync_documents.py *)

\* what a call returned (or that it raised), as its caller sees it; `replaced`
\* is an observation for the properties: how many records of the file the
\* collection held when sync_single_file was called
NoCall ==
    [error |-> "none",
     module |-> "-",
     k |-> 0,
     chunks |-> << >>,
     raised |-> FALSE,
     success |-> FALSE,
     at |-> 0,
     file |-> "-",
     documents |-> << >>,
     batch_size |-> 0,
     fail |-> "none",
     clear |-> FALSE,
     question |-> "",
     text |-> "",
     chunk_size |-> 0,
     chunk_overlap |-> 0,
     answer |-> "none",
     context |-> << >>,
     is_conversational |-> FALSE,
     sources |-> << >>,
     num_vectors |-> 0,
     chunks_added |-> 0,
     errors |-> << >>,
     files_processed |-> 0,
     op |-> "none",
     replaced |-> 0,
     trace |-> << >>,
     events |-> << >>]

\* the for loop of sync_module over process_all_files()
RECURSIVE SyncLoop(_, _, _, _, _, _, _, _)
SyncLoop(files, fld, q, m, hasDocx, fail, total, errors) ==
    IF files = << >>
    THEN [error |-> "none",
          raised |-> FALSE,
          q |-> q,
          chunks_added |-> total,
          errors |-> errors]
    ELSE
      LET f == Head(files)
          result == ProcessAllFilesStep(f, fld[f], m, hasDocx)
      IN  IF result.raised
          THEN [error |-> result.error,
                raised |-> TRUE,
                q |-> q,
                chunks_added |-> total,
                errors |-> errors]
          ELSE IF ~result.success
          THEN SyncLoop(Tail(files), fld, q, m, hasDocx, fail, total,
                        Append(errors, <<f, result.error>>))
          ELSE IF result.chunks = << >>
          THEN SyncLoop(Tail(files), fld, q, m, hasDocx, fail, total, errors)
          ELSE
            LET added == AddDocuments(q, CollectionName(m), result.chunks, BATCH_SIZE,
                                      IF fail.file = f THEN fail ELSE NoFail)
            IN  IF added.raised
                THEN [error |-> added.error,
                      raised |-> TRUE,
                      q |-> added.q,
                      chunks_added |-> total,
                      errors |-> errors]
                ELSE SyncLoop(Tail(files), fld, added.q, m, hasDocx, fail,
                              total + Len(result.chunks), errors)

\* the report of a sync that failed although it had nothing to do
NoFilesReportFailed(call) == call

\* the report sync_module returns when the folder holds no source file:
\* zero counts, no errors, success
NoFilesReport(call) == [call EXCEPT !.success = TRUE]

\* sync_module
SyncModuleRun(fld, q, m, clear_first, hasDocx, fail) ==
    LET pdf_files == GetPdfFiles(fld)
        call == [NoCall EXCEPT !.op = "sync_module", !.module = m, !.clear = clear_first]
    IN  IF pdf_files = << >>
        THEN [q |-> q, ret |-> NoFilesReport(call)]
        ELSE
          LET cleared == IF clear_first THEN ClearCollection(q, CollectionName(m), fail)
                         ELSE [error |-> "none", raised |-> FALSE, q |-> q]
              run == IF cleared.raised THEN cleared
                     ELSE SyncLoop(pdf_files, fld, cleared.q, m, hasDocx, fail, 0, << >>)
          IN  IF run.raised
              THEN [q |-> run.q,
                    ret |-> [call EXCEPT !.raised = TRUE, !.error = run.error]]
              ELSE [q |-> run.q,
                    ret |-> [call EXCEPT !.files_processed = Len(pdf_files),
                                         !.chunks_added = run.chunks_added,
                                         !.errors = run.errors,
                                         !.success = (Len(run.errors) = 0)]]

\* sync_single_file up to the return of delete_by_file: the existence check
\* and the delete; `done` when the call has ended there
SyncSingleFileDelete(fld, q, m, f, fail) ==
    LET call == [NoCall EXCEPT !.op = "sync_single_file", !.module = m, !.file = f,
                               !.replaced = Cardinality(FilePoints(q[CollectionName(m)], f))]
    IN  IF fld[f].st = "absent"
        THEN [q |-> q, ret |-> [call EXCEPT !.error = "File not found"], done |-> TRUE]
        ELSE
          LET deleted == DeleteByFile(q, CollectionName(m), f,
                                      IF fail.kind = "delete" THEN IndexFail(f) ELSE NoFail)
          IN  IF deleted.raised
              THEN [q |-> q,
                    ret |-> [call EXCEPT !.raised = TRUE, !.error = deleted.error],
                    done |-> TRUE]
              ELSE [q |-> deleted.q, ret |-> call, done |-> FALSE]

\* a try block of sync_single_file that clears the file's records again
\* before it writes
SyncSingleFileAddReplacing(call, fld, q, m, f, hasDocx, fail) ==
    LET processed == ProcessSingleFile(f, fld[f], m, hasDocx)
        cleared == [q EXCEPT ![CollectionName(m)].points = { x \in @ : x.file_name # f }]
        added == AddDocuments(cleared, CollectionName(m), processed.chunks, BATCH_SIZE, fail)
    IN  IF ~processed.ok THEN [q |-> q, ret |-> [call EXCEPT !.error = processed.error]]
        ELSE IF added.raised THEN [q |-> added.q, ret |-> [call EXCEPT !.error = added.error]]
        ELSE [q |-> added.q,
              ret |-> [call EXCEPT !.success = TRUE, !.file = f,
                                   !.chunks_added = Len(processed.chunks)]]

\* the try block of sync_single_file: process_single_file, add_documents and
\* the result; every exception becomes a result with success False
SyncSingleFileAdd(call, fld, q, m, f, hasDocx, fail) ==
    LET processed == ProcessSingleFile(f, fld[f], m, hasDocx)
    IN  IF ~processed.ok
        THEN [q |-> q, ret |-> [call EXCEPT !.error = processed.error]]
        ELSE
          LET added == AddDocuments(q, CollectionName(m),
                                    processed.chunks, BATCH_SIZE, fail)
          IN  IF added.raised
              THEN [q |-> added.q, ret |-> [call EXCEPT !.error = added.error]]
              ELSE [q |-> added.q,
                    ret |-> [call EXCEPT !.success = TRUE, !.file = f,
                                         !.chunks_added = Len(processed.chunks)]]

\* sync_single_file, for the file named f of the module's folder
SyncSingleFileRun(fld, q, m, f, hasDocx, fail) ==
    LET deleted == SyncSingleFileDelete(fld, q, m, f, fail)
    IN  IF deleted.done THEN [q |-> deleted.q, ret |-> deleted.ret]
        ELSE SyncSingleFileAdd(deleted.ret, fld, deleted.q, m, f, hasDocx, fail)

\* failures the environment may inject into a sync
DeleteFail == [at |-> 0, file |-> "-", kind |-> "delete"]

\* the failures that can hit a full sync of the folder fld: one per call to
\* the backend or the embedding service that the run makes
SyncModuleFails(fld, clear_first) ==
    {NoFail}
    \cup (IF clear_first /\ GetPdfFiles(fld) # << >> THEN {ClearFail, ExistsFail} ELSE {})
    \cup UNION { {KeyFail(f), IndexFail(f), BatchFail(f, 0)} :
                   f \in { g \in FileNames : fld[g].st = "ok" } }

SyncSingleFileFails(fld, f) ==
    IF fld[f].st = "absent" THEN {NoFail}
    ELSE {NoFail, DeleteFail}
         \cup (IF fld[f].st = "ok" THEN {KeyFail(f), IndexFail(f), BatchFail(f, 0)} ELSE {})

\* python-docx is installed or not; it matters to a run that loads a Word file
HasDocxChoices(fld, files) ==
    IF \E f \in files : Suffix(f) # ".pdf" /\ fld[f].st # "absent" THEN BOOLEAN ELSE {TRUE}

\* the processes that can have a call in progress: API workers, sync scripts
Procs == {1, 2}

\* what a process between two calls has in progress
Idle ==
    [module |-> "-",
     file |-> "-",
     fail |-> "none",
     question |-> "",
     answer |-> Raise("none", << >>),
     op |-> "idle",
     replaced |-> 0]

-----------------------------------------------------------------------------
(* src/api.py: the streaming chat endpoint *)

\* a response stream yields at most this many fragments
MaxFragments == 2

\* RAGQueryHandler.stream: a finite sequence of text fragments, consumed
\* once; the services it calls may fail after any number of them
Stream(question, n, raises) ==
    [raised |-> raises, fragments |-> [i \in 1..n |-> "tok"]]

\* one server-sent event: {'chunk': ...}, {'done': True} or {'error': ...}
Event(type, data) == [type |-> type, data |-> data]

\* a generator that sends 'done' whether or not the stream raised
GenerateAlwaysDone(stream) ==
    [i \in 1..Len(stream.fragments) |-> Event("chunk", stream.fragments[i])]
    \o (IF stream.raised THEN << Event("error", "stream failed") >> ELSE << >>)
    \o << Event("done", "True") >>

\* generate() of chat_stream: a chunk event for each fragment of the stream,
\* then 'done'; the exception of the stream ends the loop with 'error'
Generate(stream) ==
    [i \in 1..Len(stream.fragments) |-> Event("chunk", stream.fragments[i])]
    \o (IF stream.raised THEN << Event("error", "stream failed") >>
        ELSE << Event("done", "True") >>)

\* chat_stream: the events of the response
ChatStreamRun(c, q, m, message, stream, fail) ==
    LET resources == GetModuleResources(c, q, m, fail)
    IN  IF ~resources.success
        THEN [cache |-> resources.cache, success |-> FALSE,
              events |-> << Event("error", resources.error) >>]
        ELSE [cache |-> resources.cache, success |-> TRUE,
              events |-> Generate(stream)]

-----------------------------------------------------------------------------
(* src/app.py: the Streamlit session *)

\* a history holds at most this many turns
MaxTurns == 5

\* init_session_state; resources[m] is what st.cache_resource holds of
\* load_module_resources(m)
NoSession ==
    [resources |-> [m \in Modules |-> "unloaded"],
     current_module |-> "None",
     messages |-> [m \in Modules |-> << >>]]

Turn(role, content) == [content |-> content, role |-> role]

\* the greeting set_current_module puts in a new history
Greeting(m) == Turn("assistant", "Bonjour " \o m)

\* set_current_module; a module is in st.session_state.messages when its
\* history is not empty
SetCurrentModule(s, m) ==
    [s EXCEPT !.current_module = m,
              !.messages[m] = IF s.messages[m] = << >> THEN << Greeting(m) >>
                              ELSE s.messages[m]]

\* load_module_resources under st.cache_resource: the first result for a
\* module is kept
LoadModuleResources(s, q, m, fail) ==
    IF s.resources[m] # "unloaded" THEN s
    ELSE LET exists == q[CollectionName(m)].exists /\ fail # "exists"
         IN  IF exists /\ fail = "info"
             THEN [s EXCEPT !.resources[m] = "failed"]
             ELSE IF exists /\ GetCollectionInfo(q, CollectionName(m)).count > 0
             THEN [s EXCEPT !.resources[m] = "ok"]
             ELSE [s EXCEPT !.resources[m] = "failed"]

\* the chat input of render_chat_page: the user turn, then the assistant
\* turn once st.write_stream has returned; the run ends before that when the
\* stream raises or Streamlit interrupts the run for a rerun
AppendExchange(messages, prompt, stream, interrupted) ==
    IF stream.raised \/ interrupted
    THEN Append(messages, Turn("user", prompt))
    ELSE messages \o << Turn("user", prompt), Turn("assistant", JoinParts(stream.fragments)) >>

-----------------------------------------------------------------------------
(* The state machine *)

Init ==
    /\ folder = [m \in Modules |-> [f \in FileNames |-> Absent]]
    /\ qdrant = [n \in CollectionNames |-> NoCollection]
    /\ cache = [m \in Modules |-> [cached |-> FALSE, num_vectors |-> 0]]
    /\ last = NoCall
    /\ inflight = [p \in Procs |-> Idle]
    /\ session = NoSession

\* the operator of the installation puts, replaces or removes a source file
EditFolder(m, f, fs) ==
    /\ folder[m][f] # fs
    /\ folder' = [folder EXCEPT ![m][f] = fs]
    /\ last' = [NoCall EXCEPT !.op = "edit_folder", !.module = m, !.file = f]
    /\ UNCHANGED <<qdrant, cache, inflight, session>>

SyncModule(m, clear_first, hasDocx, fail) ==
    \E run \in {SyncModuleRun(folder[m], qdrant, m, clear_first, hasDocx, fail)} :
        /\ TotalPoints(run.q) <= MaxPoints
        /\ qdrant' = run.q
        /\ last' = run.ret
        /\ UNCHANGED <<folder, cache, inflight, session>>

SyncSingleFile(m, f, hasDocx, fail) ==
    \E run \in {SyncSingleFileRun(folder[m], qdrant, m, f, hasDocx, fail)} :
        /\ TotalPoints(run.q) <= MaxPoints
        /\ qdrant' = run.q
        /\ last' = run.ret
        /\ UNCHANGED <<folder, cache, inflight, session>>

\* a service call of a query that creates the collection it finds missing
ServiceCallCreates(q, name, call) ==
    IF call = "search" /\ ~q[name].exists
    THEN [q EXCEPT ![name] = CreateCollection(NoCollection)]
    ELSE q

\* what a service call of a query leaves of the store: embed_query and the
\* generation go to OpenAI, client.search reads the collection
ServiceCall(q, name, call) == q

\* the store after the service calls of a query, in the order made
RECURSIVE ServiceCalls(_, _, _)
ServiceCalls(q, name, calls) ==
    IF calls = << >> THEN q
    ELSE ServiceCalls(ServiceCall(q, name, Head(calls)), name, Tail(calls))

\* the calls of an ask that can raise
AskFails(question) ==
    IF IsConversationalQuery(question) THEN {"none", "key", "generate"}
    ELSE {"none", "key", "embed1", "search1", "generate", "embed2", "search2"}

\* the orders the embedding scores can put the collection in; one order is
\* enough for a call that hands back nothing of what was retrieved
\* (ask hands back no score: one scoring per order is enough)
AskRankings(q, name, question, fail) ==
    LET Scored(r) == [i \in DOMAIN r |-> Hit(r[i], 1)]
    IN  IF IsConversationalQuery(question) THEN { << >> }
        ELSE IF fail # "none" THEN { Scored(CHOOSE r \in Rankings(q[name].points) : TRUE) }
        ELSE { Scored(r) : r \in Rankings(q[name].points) }

\* a caller holding a RAGQueryHandler of module m asks
AskQuestion(m, question, ranking, fail) ==
    \E result \in {Ask(qdrant, CollectionName(m), question, ranking, fail)} :
        /\ last' = [NoCall EXCEPT !.op = "ask", !.module = m, !.question = question,
                                  !.fail = fail, !.raised = result.raised,
                                  !.success = result.success, !.error = result.error,
                                  !.answer = result.answer, !.sources = result.sources,
                                  !.context = result.context,
                                  !.is_conversational = result.is_conversational,
                                  !.trace = result.calls]
        /\ qdrant' = ServiceCalls(qdrant, CollectionName(m), result.calls)
        /\ UNCHANGED <<folder, cache, inflight, session>>

ChatFails(m, question) ==
    IF cache[m].cached THEN AskFails(question)
    ELSE {"none", "exists"}
         \cup (IF qdrant[CollectionName(m)].exists THEN {"info"} ELSE {})
         \cup (IF Count(qdrant[CollectionName(m)]) > 0 THEN AskFails(question) ELSE {})

\* POST /api/chat
Chat(m, message, ranking, fail) ==
    \E response \in {ChatRun(cache, qdrant, m, message, ranking, fail)} :
        /\ cache' = response.cache
        /\ last' = [NoCall EXCEPT !.op = "chat", !.module = m, !.question = message,
                                  !.fail = fail, !.success = response.success,
                                  !.error = response.error, !.answer = response.answer,
                                  !.trace = response.calls]
        /\ qdrant' = ServiceCalls(qdrant, CollectionName(m), response.calls)
        /\ UNCHANGED <<folder, inflight, session>>

Next ==
    \/ \E m \in Modules, f \in FileNames : \E fs \in FileStates(m, f) : EditFolder(m, f, fs)
    \/ \E m \in Modules, clear_first \in BOOLEAN :
          \E hasDocx \in HasDocxChoices(folder[m], FileNames),
             fail \in SyncModuleFails(folder[m], clear_first) :
             SyncModule(m, clear_first, hasDocx, fail)
    \/ \E m \in Modules, f \in FileNames :
          \E hasDocx \in HasDocxChoices(folder[m], {f}),
             fail \in SyncSingleFileFails(folder[m], f) :
             SyncSingleFile(m, f, hasDocx, fail)

Spec == Init /\ [][Next]_vars

-----------------------------------------------------------------------------
(* Properties of the sync operations (specification Spec) *)

LoadErrors == {"Erreur lors du chargement", "python-docx n'est pas installe",
               "Format non supporte"}

\* C1: two full syncs of a module in succession, both returning success, with
\* the folder unchanged between them (with or without clear_first): the second
\* leaves the collection's point count as the first left it.
C1_ResyncKeepsCount ==
    [][ ( /\ last.op = "sync_module" /\ last.success
          /\ last'.op = "sync_module" /\ last'.success
          /\ last'.module = last.module
          /\ folder' = folder )
        => Count(qdrant'[CollectionName(last.module)])
             = Count(qdrant[CollectionName(last.module)]) ]_vars

\* C2: a successful sync_single_file leaves, under the file's name, exactly
\* the chunks of that call (as many records as its chunks_added), and the
\* records of every other file name as they were.
C2_SingleFileReplaces ==
    [][ (last'.op = "sync_single_file" /\ last'.success)
        => LET name == CollectionName(last'.module)
               f == last'.file
               chunks == ProcessSingleFile(f, folder'[last'.module][f],
                                           last'.module, TRUE).chunks
           IN  /\ Cardinality(FilePoints(qdrant'[name], f)) = last'.chunks_added
               /\ { Payload(p) : p \in FilePoints(qdrant'[name], f) } = Range(chunks)
               /\ Len(chunks) = last'.chunks_added
               /\ \A g \in FileNames \ {f} :
                      FilePoints(qdrant'[name], g) = FilePoints(qdrant[name], g) ]_vars

\* a successful sync_single_file of a file that had records in the collection,
\* beside the records of another file
C2_Witness ==
    /\ last.op = "sync_single_file" /\ last.success
    /\ last.replaced >= 1 /\ last.chunks_added >= 1
    /\ \E g \in FileNames \ {last.file} :
           FilePoints(qdrant[CollectionName(last.module)], g) # {}

\* C4: a full sync of a folder that holds a file that cannot be loaded does
\* not end with that file's load error; when it returns, the file is an entry
\* of the report's errors and every later loadable file has its chunks in the
\* collection.
C4_LoadFailureCollected ==
    \A m \in Modules, f \in FileNames :
        (last.op = "sync_module" /\ last.module = m /\ folder[m][f].st = "corrupt")
        => /\ ~(last.raised /\ last.error \in LoadErrors)
           /\ ~last.raised =>
                /\ \E i \in 1..Len(last.errors) : last.errors[i][1] = f
                /\ \A g \in FileNames :
                     (LowerNameRank(g) > LowerNameRank(f) /\ folder[m][g].st = "ok")
                     => Range(ProcessSingleFile(g, folder[m][g], m, TRUE).chunks)
                          \subseteq { Payload(p) : p \in qdrant[CollectionName(m)].points }

-----------------------------------------------------------------------------
(* The API process and the sync script, for one module *)

QueryModules == {"cgi"}

\* the calls of get_module_resources that can fail when the status of
\* module m is asked for
StatusFails(m) ==
    IF cache[m].cached THEN {"none"}
    ELSE {"none", "exists"}
         \cup (IF qdrant[CollectionName(m)].exists THEN {"info"} ELSE {})

\* GET /api/modules/{module_id}/status
GetModuleStatus(m, fail) ==
    \E resources \in {GetModuleResources(cache, qdrant, m, fail)} :
        /\ cache' = resources.cache
        /\ last' = [NoCall EXCEPT !.op = "status", !.module = m, !.fail = fail,
                                  !.success = resources.success,
                                  !.error = resources.error,
                                  !.num_vectors = resources.num_vectors]
        /\ UNCHANGED <<folder, qdrant, inflight, session>>

NextQuery ==
    \/ \E m \in QueryModules : \E fail \in StatusFails(m) : GetModuleStatus(m, fail)
    \/ \E m \in QueryModules, f \in FileNames : \E fs \in FileStates(m, f) : EditFolder(m, f, fs)
    \/ \E m \in QueryModules, clear_first \in BOOLEAN :
          \E hasDocx \in HasDocxChoices(folder[m], FileNames),
             fail \in SyncModuleFails(folder[m], clear_first) :
             SyncModule(m, clear_first, hasDocx, fail)
    \/ \E m \in QueryModules, f \in FileNames :
          \E hasDocx \in HasDocxChoices(folder[m], {f}),
             fail \in SyncSingleFileFails(folder[m], f) :
             SyncSingleFile(m, f, hasDocx, fail)
    \/ \E m \in QueryModules, question \in QueryQuestions :
          \E fail \in AskFails(question) :
             \E ranking \in AskRankings(qdrant, CollectionName(m), question, fail) :
                AskQuestion(m, question, ranking, fail)
    \/ \E m \in QueryModules, message \in QueryQuestions :
          \E fail \in ChatFails(m, message) :
             \E ranking \in AskRankings(qdrant, CollectionName(m), message, fail) :
                Chat(m, message, ranking, fail)

SpecQuery == Init /\ [][NextQuery]_vars

-----------------------------------------------------------------------------
(* The classifier on its own *)

Classify(question) ==
    /\ last' = [NoCall EXCEPT !.op = "is_conversational_query",
                              !.question = question,
                              !.is_conversational = IsConversationalQuery(question)]
    /\ UNCHANGED <<folder, qdrant, cache, inflight, session>>

NextClassify == \E question \in Questions : Classify(question)

SpecClassify == Init /\ [][NextClassify]_vars

-----------------------------------------------------------------------------
(* Properties of the query side *)

Retrievals == {"embed_query", "search"}
Generations == {"generate_persona", "generate_rag"}

\* C3: a chat query for a module whose collection is missing or holds no
\* point gets the empty-index answer, and neither retrieval nor generation is
\* called for it.
C3_EmptyIndexNeverQueried ==
    ( /\ last.op = "chat"
      /\ last.fail = "none"
      /\ Count(qdrant[CollectionName(last.module)]) = 0 )
    => /\ ~last.success
       /\ last.error = EmptyIndexError
       /\ last.trace = << >>

\* C5: the sources of a substantive answer are the distinct pages of the
\* retrieved chunks, each once, in ascending order.
C5_SourcesAscending ==
    (last.op = "ask" /\ last.success /\ ~last.is_conversational)
    => /\ Range(last.sources)
            = { p.page : p \in qdrant[CollectionName(last.module)].points }
       /\ \A i, j \in DOMAIN last.sources : i < j => last.sources[i] < last.sources[j]

\* C6: for a substantive question no retrieval call (embedding of the query,
\* search of the index) comes after a call of the generation service.
C6_RetrievalBeforeGeneration ==
    (last.op = "ask" /\ ~IsConversationalQuery(last.question))
    => \A i, j \in DOMAIN last.trace :
           (last.trace[i] \in Generations /\ i < j) => last.trace[j] \notin Retrievals

C8_ConversationalSkipsRetrieval ==
    (last.op = "ask" /\ IsConversationalQuery(last.question))
    => /\ Range(last.trace) \cap Retrievals = {}
       /\ "generate_rag" \notin Range(last.trace)
       /\ last.context = << >>
       /\ last.sources = << >>
       /\ last.success => /\ last.trace = <<"generate_persona">>
                          /\ last.answer = "persona_answer"
                          /\ last.is_conversational

C8_Witness ==
    /\ last.op = "ask"
    /\ IsConversationalQuery(last.question)
    /\ last.success
    /\ Count(qdrant[CollectionName(last.module)]) >= 2

-----------------------------------------------------------------------------
(* Properties of the classifier *)

GreetingStarts == {"salut", "bonjour", "bonsoir", "hello", "hi", "hey", "coucou",
                   "ça va", "comment vas", "comment tu vas", "tu vas bien",
                   "comment allez"}
ThanksStarts == {"merci", "thanks", "thank you"}
FarewellStarts == {"au revoir", "bye", "à bientôt", "à plus"}
SelfIntroductionStarts == {"qui es tu", "qui es-tu", "tu es qui", "c'est quoi",
                           "présente toi", "présente-toi"}
ShortAcknowledgements == {"ok", "d'accord", "compris", "super", "parfait", "génial",
                          "cool", "oui", "non", "ouais", "nope"}

\* the trimmed, lower-cased text of a question
Trimmed(question) == Lower(Strip(question))

MatchesPattern(t) ==
    \/ \E start \in GreetingStarts \cup ThanksStarts \cup FarewellStarts
                      \cup SelfIntroductionStarts : StartsWith(t, start)
    \/ t \in ShortAcknowledgements

\* C9: a question whose trimmed, lower-cased text starts with a greeting,
\* thanks, farewell or self-introduction pattern, or is exactly a short
\* acknowledgement, is Conversational; "Bonjour", "Merci beaucoup" and "ok"
\* are Conversational, the question on the VAT rate of food is Substantive.
C9_PatternsAreConversational ==
    last.op = "is_conversational_query"
    => /\ MatchesPattern(Trimmed(last.question)) => last.is_conversational
       /\ last.question \in {"Bonjour", "Merci beaucoup", "ok"} => last.is_conversational
       /\ last.question = "Quel est le taux de TVA sur les produits alimentaires ?"
             => ~last.is_conversational

C9_Witness ==
    /\ last.op = "is_conversational_query"
    /\ last.question = "  Merci beaucoup pour votre aide sur la taxe \n"
    /\ last.is_conversational

\* C10: a question matching no pattern is Conversational exactly when its
\* trimmed text has fewer than 15 characters and holds no domain keyword.
C10_ShortQueryHeuristic ==
    (last.op = "is_conversational_query" /\ ~MatchesPattern(Trimmed(last.question)))
    => ( last.is_conversational
         <=> /\ Len(Trimmed(last.question)) < 15
             /\ ~\E keyword \in FISCAL_KEYWORDS : Contains(Trimmed(last.question), keyword) )

C10_Witness ==
    /\ last.op = "is_conversational_query"
    /\ ~MatchesPattern(Trimmed(last.question))
    /\ Len(Trimmed(last.question)) = 15
    /\ Len(last.question) > 15
    /\ ~\E keyword \in FISCAL_KEYWORDS : Contains(Trimmed(last.question), keyword)
    /\ ~last.is_conversational

\* C11 (as stated): the short substantive question "Taux TVA?" is classified
\* Conversational.
C11_TauxTvaConversational ==
    (last.op = "is_conversational_query" /\ last.question = "Taux TVA?")
    => last.is_conversational

\* C11 (amended): "Taux TVA?" is classified Substantive, for it holds the
\* keywords "taux" and "tva"; a short substantive question that holds no
\* keyword, "Quel délai ?", is classified Conversational.
C11_TauxTvaSubstantive ==
    last.op = "is_conversational_query"
    => /\ last.question = "Taux TVA?" => ~last.is_conversational
       /\ last.question = "Quel délai ?" => last.is_conversational

C11_Witness ==
    /\ last.op = "is_conversational_query"
    /\ last.question = "Taux TVA?"
    /\ Len(Trimmed(last.question)) < 15
    /\ ~last.is_conversational

-----------------------------------------------------------------------------
(* The VectorStoreManager of each module, called method by method *)

\* chunks handed to add_documents: all of the same content, from two files
StoreChunk(m, f) ==
    [file_name |-> f, module |-> m, page |-> 0, content |-> <<0, 1>>, chunk_id |-> 0]

\* the lists of chunks handed to the manager of module m: every list the
\* backend has room for, for "cgi"; one chunk or none for "cdt"
StoreDocuments(q, m) ==
    IF m = "cdt" THEN { << >>, <<StoreChunk(m, "a.pdf")>> }
    ELSE UNION { [1..n -> { StoreChunk(m, f) : f \in FileNames }] :
                   n \in 0..(MaxPoints - TotalPoints(q)) }

\* the calls of add_documents(documents, batch_size) that can raise
StoreAddFails(documents, batch_size) ==
    {NoFail, KeyFail("-"), IndexFail("-")}
    \cup { BatchFail("-", j) : j \in 0..((Len(documents) - 1) \div batch_size) }

StoreAddDocuments(m, documents, batch_size, fail) ==
    \E added \in {AddDocuments(qdrant, CollectionName(m), documents, batch_size, fail)} :
        /\ TotalPoints(added.q) <= MaxPoints
        /\ qdrant' = added.q
        /\ last' = [NoCall EXCEPT !.op = "add_documents", !.module = m,
                                  !.documents = documents, !.batch_size = batch_size,
                                  !.fail = fail.kind, !.at = fail.at,
                                  !.raised = added.raised, !.error = added.error]
        /\ UNCHANGED <<folder, cache, inflight, session>>

StoreDeleteByFile(m, f, fail) ==
    \E deleted \in {DeleteByFile(qdrant, CollectionName(m), f, fail)} :
        /\ qdrant' = deleted.q
        /\ last' = [NoCall EXCEPT !.op = "delete_by_file", !.module = m, !.file = f,
                                  !.replaced =
                                      Cardinality(FilePoints(qdrant[CollectionName(m)], f)),
                                  !.raised = deleted.raised, !.error = deleted.error]
        /\ UNCHANGED <<folder, cache, inflight, session>>

StoreClearCollection(m, fail) ==
    \E cleared \in {ClearCollection(qdrant, CollectionName(m), fail)} :
        /\ qdrant' = cleared.q
        /\ last' = [NoCall EXCEPT !.op = "clear_collection", !.module = m,
                                  !.fail = fail.kind,
                                  !.raised = cleared.raised, !.error = cleared.error]
        /\ UNCHANGED <<folder, cache, inflight, session>>

StoreSimilaritySearch(m, k, ranking, fail) ==
    \E found \in {SimilaritySearch(qdrant, CollectionName(m), k, ranking,
                                   fail = "embed1", fail = "search1")} :
        /\ last' = [NoCall EXCEPT !.op = "similarity_search", !.module = m, !.k = k,
                                  !.fail = fail, !.raised = found.raised,
                                  !.error = found.error, !.documents = found.documents,
                                  !.trace = found.calls]
        /\ UNCHANGED <<folder, qdrant, cache, inflight, session>>

\* one ranking is enough for a search that raises
StoreRankings(points, fail) ==
    IF fail = "none" THEN ScoredRankings(points)
    ELSE { CHOOSE r \in ScoredRankings(points) : TRUE }

NextStore ==
    \/ \E m \in Modules : \E documents \in StoreDocuments(qdrant, m), batch_size \in 1..MaxPoints :
          \E fail \in StoreAddFails(documents, batch_size) :
             StoreAddDocuments(m, documents, batch_size, fail)
    \/ \E m \in Modules, f \in FileNames, fail \in {NoFail, IndexFail("-")} :
          StoreDeleteByFile(m, f, fail)
    \/ \E m \in Modules, fail \in {NoFail, ExistsFail, ClearFail} :
          StoreClearCollection(m, fail)
    \/ \E m \in Modules, k \in 1..MaxPoints, fail \in {"none", "embed1", "search1"} :
          \E ranking \in StoreRankings(qdrant[CollectionName(m)].points, fail) :
             StoreSimilaritySearch(m, k, ranking, fail)

SpecStore == Init /\ [][NextStore]_vars

-----------------------------------------------------------------------------
(* Properties of the vector store *)

\* C12: a similarity_search(query, k) that returns hands back at most k
\* documents, by non-increasing score, each with the payload of a record of
\* the collection and its score; the retriever of the RAG chain has k = 8.
C12_SearchAtMostK ==
    (last.op = "similarity_search" /\ ~last.raised)
    => LET docs == last.documents
           points == qdrant[CollectionName(last.module)].points
       IN  /\ Len(docs) <= last.k
           /\ \A i, j \in DOMAIN docs : i < j => docs[i].score >= docs[j].score
           /\ \A i \in DOMAIN docs :
                 \E p \in points :
                    [file_name |-> docs[i].file_name,
                     module |-> docs[i].module,
                     page |-> docs[i].page,
                     content |-> docs[i].content,
                     chunk_id |-> docs[i].chunk_id] = Payload(p)
           /\ GetRetrieverK([k |-> RETRIEVER_K]) = 8

C12_Witness ==
    /\ last.op = "similarity_search"
    /\ ~last.raised
    /\ last.k = 2
    /\ Len(last.documents) = 2
    /\ Count(qdrant[CollectionName(last.module)]) = 3
    /\ last.documents[1].score > last.documents[2].score

\* C16: an add_documents(chunks, batch_size) that completes keeps every
\* record the collection had and adds one record per chunk of the list, so
\* the count grows by len(chunks), whatever the batch size and also for
\* chunks of identical content; no other collection changes.
C16_AddOneRecordPerChunk ==
    [][ (last'.op = "add_documents" /\ ~last'.raised)
        => LET name == CollectionName(last'.module)
               old == qdrant[name].points
               new == qdrant'[name].points
               docs == last'.documents
           IN  /\ qdrant'[name].exists
               /\ old \subseteq new
               /\ Cardinality(new) = Cardinality(old) + Len(docs)
               /\ \A p \in new \ old : Payload(p) \in Range(docs)
               /\ \A d \in Range(docs) :
                     Cardinality({ p \in new \ old : Payload(p) = d })
                       = Cardinality({ i \in DOMAIN docs : docs[i] = d })
               /\ \A n \in CollectionNames \ {name} : qdrant'[n] = qdrant[n] ]_vars

C16_Witness ==
    /\ last.op = "add_documents"
    /\ ~last.raised
    /\ Len(last.documents) = 3
    /\ last.batch_size = 2
    /\ last.documents[2] = last.documents[3]
    /\ Count(qdrant[CollectionName(last.module)]) = 3

\* C17: a delete_by_file(f) that completes removes the records of the
\* manager's collection whose file_name is f, and leaves the other records of
\* the collection and every other collection as they were.
C17_DeleteByFileFrame ==
    [][ (last'.op = "delete_by_file" /\ ~last'.raised)
        => LET name == CollectionName(last'.module)
           IN  /\ FilePoints(qdrant'[name], last'.file) = {}
               /\ \A g \in FileNames \ {last'.file} :
                     FilePoints(qdrant'[name], g) = FilePoints(qdrant[name], g)
               /\ qdrant'[name].points \subseteq qdrant[name].points
               /\ qdrant'[name].exists
               /\ \A n \in CollectionNames \ {name} : qdrant'[n] = qdrant[n] ]_vars

C17_Witness ==
    /\ last.op = "delete_by_file"
    /\ ~last.raised
    /\ last.replaced >= 1
    /\ Count(qdrant[CollectionName(last.module)]) >= 1
    /\ \E n \in CollectionNames \ {CollectionName(last.module)} :
          FilePoints(qdrant[n], last.file) # {}

\* C18: once clear_collection has completed, the collection exists and holds
\* no point, whatever it was before.
C18_ClearedCollectionIsEmpty ==
    (last.op = "clear_collection" /\ ~last.raised)
    => /\ qdrant[CollectionName(last.module)].exists
       /\ Count(qdrant[CollectionName(last.module)]) = 0

-----------------------------------------------------------------------------
(* Properties of the sync script's reports and of stale records             *)
(* (specification Spec)                                                     *)

\* the collection of module m holds, for every file other than f, exactly
\* what the folder holds: the chunks of each readable file once, and nothing
\* under the name of a file that is not in the folder
OthersInSync(m, f) ==
    \A g \in FileNames \ {f} :
        LET held == FilePoints(qdrant[CollectionName(m)], g)
        IN  IF folder[m][g].st = "absent" THEN held = {}
            ELSE /\ folder[m][g].st = "ok"
                 /\ LET chunks == ProcessSingleFile(g, folder[m][g], m, TRUE).chunks
                    IN  /\ Cardinality(held) = Len(chunks)
                        /\ { Payload(p) : p \in held } = Range(chunks)

\* C13: a file whose chunks are in the collection has been removed from the
\* folder and the rest of the collection matches the folder; a full sync of
\* the module that returns success leaves the collection's count at its
\* count before the sync less the number of records of the removed file.
C13_RemovedFileLeavesIndex ==
    [][ \A f \in FileNames :
          ( /\ last'.op = "sync_module" /\ last'.success
            /\ folder' = folder
            /\ folder[last'.module][f].st = "absent"
            /\ FilePoints(qdrant[CollectionName(last'.module)], f) # {}
            /\ OthersInSync(last'.module, f) )
          => Count(qdrant'[CollectionName(last'.module)])
               = Count(qdrant[CollectionName(last'.module)])
                 - Cardinality(FilePoints(qdrant[CollectionName(last'.module)], f)) ]_vars

\* C14: after a full sync with clear_first that returned success, whatever
\* the folder held (nothing included), the collection holds exactly the
\* records that run added: its count is the report's chunks_added.
C14_ClearFirstCountIsAdded ==
    (last.op = "sync_module" /\ last.clear /\ last.success)
    => Count(qdrant[CollectionName(last.module)]) = last.chunks_added

\* C15: in every report sync_module returns, success is true exactly when
\* errors is empty; when the folder holds no source file the report has
\* files_processed 0, chunks_added 0, no errors and success true.
C15_ReportSuccessIffNoErrors ==
    (last.op = "sync_module" /\ ~last.raised)
    => /\ last.success <=> (last.errors = << >>)
       /\ GetPdfFiles(folder[last.module]) = << >>
            => /\ last.files_processed = 0
               /\ last.chunks_added = 0
               /\ last.errors = << >>
               /\ last.success

\* a full sync of a folder without source files has returned its report,
\* beside a collection that still holds records
C15_Witness ==
    /\ last.op = "sync_module" /\ ~last.raised
    /\ GetPdfFiles(folder[last.module]) = << >>
    /\ Count(qdrant[CollectionName(last.module)]) >= 1

\* C20: sync_module and sync_single_file never end with an exception; a call
\* that did not succeed returns a result that carries a message.
C20_SyncNeverRaises ==
    last.op \in {"sync_module", "sync_single_file"}
    => /\ ~last.raised
       /\ ~last.success => (last.error # "none" \/ last.errors # << >>)

-----------------------------------------------------------------------------
(* Properties of the API when the vector store cannot be reached            *)
(* (specification SpecQuery)                                                *)

\* C19: a chat request that finds the vector store unreachable when it looks
\* for the module's collection is answered with an error other than the one
\* that reports a missing or empty collection.
C19_UnreachableIsDistinct ==
    (last.op = "chat" /\ last.fail = "exists") => last.error # EmptyIndexError

-----------------------------------------------------------------------------
(* Properties of the query path's effect on the store                       *)
(* (specification SpecQuery)                                                *)

\* C21: a query (an ask or a chat request, whether it succeeds or fails at
\* any of its calls, generation included) leaves every collection's records
\* and existence as they were before it.
C21_QueryLeavesStore ==
    [][ last'.op \in {"ask", "chat"} => qdrant' = qdrant ]_vars

\* a substantive ask has searched a collection that does not exist and has
\* returned its failure
C21_Witness ==
    /\ last.op = "ask" /\ ~last.success
    /\ "search" \in Range(last.trace)
    /\ ~qdrant[CollectionName(last.module)].exists

-----------------------------------------------------------------------------
(* Properties of the chunks of a file (specification Spec)                  *)

\* C22: the chunks produced for a readable file of a module's folder carry
\* the chunk_id values 0, 1, ..., n-1 in the order produced (the order of
\* the file's pages), counted across the pages of the file and from 0 for
\* each file, and each carries the file's name and the module's id.
C22_ChunkIdsSequential ==
    \A m \in Modules, f \in FileNames :
        folder[m][f].st = "ok"
        => LET chunks == ProcessSingleFile(f, folder[m][f], m, TRUE).chunks
           IN  /\ \A i \in 1..Len(chunks) :
                      /\ chunks[i].chunk_id = i - 1
                      /\ chunks[i].file_name = f
                      /\ chunks[i].module = m
               /\ \A i, j \in 1..Len(chunks) :
                      i < j => chunks[i].page <= chunks[j].page

\* a file with chunks on two of its pages has been processed by a
\* sync_single_file that stored them, beside the records of another file
C22_Witness ==
    /\ last.op = "sync_single_file" /\ last.success /\ last.chunks_added >= 2
    /\ \E p1, p2 \in FilePoints(qdrant[CollectionName(last.module)], last.file) :
           p1.page # p2.page /\ p1.chunk_id # p2.chunk_id
    /\ \E g \in FileNames \ {last.file} :
           FilePoints(qdrant[CollectionName(last.module)], g) # {}

-----------------------------------------------------------------------------
(* The text splitter applied to one text (specification SpecSplit)          *)

SplitChars == {"a", " ", ".", "\n"}

RECURSIVE TextsOfLen(_)
TextsOfLen(n) ==
    IF n = 0 THEN {""} ELSE { t \o c : t \in TextsOfLen(n - 1), c \in SplitChars }

SplitTexts == UNION { TextsOfLen(n) : n \in 0..MaxTextLen }

\* split_text on a splitter built with chunk_size and chunk_overlap
Split(text, chunk_size, chunk_overlap) ==
    \E chunks \in {SplitText(text, chunk_size, chunk_overlap)} :
        /\ last' = [NoCall EXCEPT !.op = "split_text", !.text = text,
                                  !.chunk_size = chunk_size,
                                  !.chunk_overlap = chunk_overlap,
                                  !.chunks = chunks]
        /\ UNCHANGED <<folder, qdrant, cache, inflight, session>>

\* the splitter keeps nothing from one call to the next: a behaviour is one
\* call
NextSplit ==
    /\ last.op = "none"
    /\ \E text \in SplitTexts, chunk_size \in 1..MaxChunkSize :
          \E chunk_overlap \in 0..(chunk_size - 1) : Split(text, chunk_size, chunk_overlap)

SpecSplit == Init /\ [][NextSplit]_vars

EndsWith(s, suffix) ==
    Len(suffix) <= Len(s) /\ SubSeq(s, Len(s) - Len(suffix) + 1, Len(s)) = suffix

\* C23: every chunk of a split with chunk size S and overlap O < S is not
\* empty and no longer than S (the separators end with "", so no unit is
\* left that cannot be split); every chunk after the first begins with the
\* text carried over from the chunk before it, which is the end of that
\* chunk and at most O characters long.
C23_ChunksBoundedAndOverlap ==
    last.op = "split_text"
    => /\ \A i \in 1..Len(last.chunks) :
             /\ last.chunks[i].text # ""
             /\ Len(last.chunks[i].text) <= last.chunk_size
             /\ Len(last.chunks[i].carried) <= last.chunk_overlap
             /\ StartsWith(last.chunks[i].text, last.chunks[i].carried)
       /\ \A i \in 2..Len(last.chunks) :
             EndsWith(last.chunks[i - 1].text, last.chunks[i].carried)
       /\ Len(last.chunks) >= 1 => last.chunks[1].carried = ""

\* a text was split on a separator and character by character into several
\* chunks, one of which begins with text carried from the chunk before
C23_Witness ==
    /\ last.op = "split_text" /\ Len(last.chunks) >= 3
    /\ Contains(last.text, ".")
    /\ \E i \in 2..Len(last.chunks) : last.chunks[i].carried # ""

-----------------------------------------------------------------------------
(* A query in progress while the sync script runs (specification            *)
(* SpecInFlight): ask is two steps, rag_chain.invoke and the rest, and the  *)
(* sync script, another process, may run between them.                      *)

\* ask up to the return of rag_chain.invoke
AskBegin(p, m, question, ranking, fail) ==
    \E answer \in {Invoke(qdrant, CollectionName(m), question, ranking, fail)} :
        /\ inflight[p].op = "idle"
        /\ inflight' = [inflight EXCEPT ![p] =
                            [Idle EXCEPT !.op = "ask", !.module = m,
                                         !.question = question, !.fail = fail,
                                         !.answer = answer]]
        /\ last' = [NoCall EXCEPT !.op = "ask_invoke", !.module = m,
                                  !.question = question, !.fail = fail]
        /\ UNCHANGED <<folder, qdrant, cache, session>>

\* ask from the return of rag_chain.invoke to its own return
AskEnd(p, ranking) ==
    LET call == inflight[p]
    IN  /\ call.op = "ask"
        /\ \E result \in {AskExcept(AskAfterInvoke(call.answer, qdrant,
                                                    CollectionName(call.module),
                                                    call.question, ranking, call.fail))} :
              last' = [NoCall EXCEPT !.op = "ask", !.module = call.module,
                                     !.question = call.question,
                                     !.fail = call.fail, !.raised = result.raised,
                                     !.success = result.success, !.error = result.error,
                                     !.answer = result.answer, !.sources = result.sources,
                                     !.context = result.context,
                                     !.is_conversational = result.is_conversational,
                                     !.trace = result.calls]
        /\ inflight' = [inflight EXCEPT ![p] = Idle]
        /\ UNCHANGED <<folder, qdrant, cache, session>>

\* the API process that serves the query
Asker == 1

NextInFlight ==
    \/ \E m \in QueryModules, f \in FileNames : \E fs \in FileStates(m, f) : EditFolder(m, f, fs)
    \/ \E m \in QueryModules, clear_first \in BOOLEAN :
          \E hasDocx \in HasDocxChoices(folder[m], FileNames) :
             SyncModule(m, clear_first, hasDocx, NoFail)
    \/ \E m \in QueryModules, f \in FileNames :
          \E hasDocx \in HasDocxChoices(folder[m], {f}) :
             SyncSingleFile(m, f, hasDocx, NoFail)
    \/ \E m \in QueryModules, question \in QueryQuestions :
          \E fail \in AskFails(question) :
             \E ranking \in AskRankings(qdrant, CollectionName(m), question, fail) :
                AskBegin(Asker, m, question, ranking, fail)
    \/ \E ranking \in AskRankings(qdrant, CollectionName(inflight[Asker].module),
                                   inflight[Asker].question, inflight[Asker].fail) :
          AskEnd(Asker, ranking)

SpecInFlight == Init /\ [][NextInFlight]_vars

\* C24: the page numbers a substantive ask returns as sources are exactly
\* the page numbers of the chunks formatted into the context its answer was
\* generated from, whatever the sync script did to the collection while the
\* ask was in progress.
C24_SourcesAreContextPages ==
    (last.op = "ask" /\ last.success /\ ~last.is_conversational)
    => Range(last.sources) = Range(last.context)

-----------------------------------------------------------------------------
(* Properties of the status endpoint (specification SpecQuery)              *)

\* C25: the num_vectors a status request reports is the number of points
\* the module's collection holds when the request is answered.
C25_StatusCountIsCurrent ==
    last.op = "status"
    => last.num_vectors = Count(qdrant[CollectionName(last.module)])

-----------------------------------------------------------------------------
(* The Streamlit application (specification SpecUI)                         *)

\* a module button of the home page: set_current_module, st.rerun, and the
\* chat page loads the module's resources
SelectModule(m, fail) ==
    /\ session.current_module = "None"
    /\ session' = LoadModuleResources(SetCurrentModule(session, m), qdrant, m, fail)
    /\ last' = [NoCall EXCEPT !.op = "select_module", !.module = m, !.fail = fail]
    /\ UNCHANGED <<folder, qdrant, cache, inflight>>

\* a back button of the chat page: go_back_to_home, st.rerun
GoBackToHome ==
    /\ session.current_module # "None"
    /\ session' = [session EXCEPT !.current_module = "None"]
    /\ last' = [NoCall EXCEPT !.op = "go_back_to_home", !.module = session.current_module]
    /\ UNCHANGED <<folder, qdrant, cache, inflight>>

\* a prompt typed into the chat input, which the page shows once the
\* module's resources have loaded
SubmitPrompt(prompt, n, raises, interrupted) ==
    LET m == session.current_module
    IN  /\ m # "None"
        /\ session.resources[m] = "ok"
        /\ Len(session.messages[m]) + 2 <= MaxTurns
        /\ session' = [session EXCEPT !.messages[m] =
                           AppendExchange(session.messages[m], prompt,
                                          Stream(prompt, n, raises), interrupted)]
        /\ last' = [NoCall EXCEPT !.op = "submit_prompt", !.module = m,
                                  !.question = prompt,
                                  !.raised = raises \/ interrupted]
        /\ UNCHANGED <<folder, qdrant, cache, inflight>>

NextUI ==
    \/ \E m \in Modules : EditFolder(m, "a.pdf", Readable(<<1>>))
    \/ \E m \in Modules : SyncModule(m, TRUE, TRUE, NoFail)
    \/ \E m \in Modules, fail \in {"none", "exists", "info"} : SelectModule(m, fail)
    \/ GoBackToHome
    \/ \E prompt \in QueryQuestions, n \in 0..MaxFragments, raises, interrupted \in BOOLEAN :
          SubmitPrompt(prompt, n, raises, interrupted)

SpecUI == Init /\ [][NextUI]_vars

IsPrefix(s, t) == Len(s) <= Len(t) /\ SubSeq(t, 1, Len(s)) = s

\* C26: every module's history only grows at its end; a history comes into
\* being, as the single assistant greeting, when the module is selected for
\* the first time; a submitted prompt adds one user turn followed by one
\* assistant turn to the current module's history and leaves the others.
C26_HistoryAppendOnly ==
    [][ /\ \A m \in Modules : IsPrefix(session.messages[m], session'.messages[m])
        /\ \A m \in Modules :
              (session.messages[m] = << >> /\ session'.messages[m] # << >>)
              => /\ last'.op = "select_module" /\ last'.module = m
                 /\ session'.messages[m] = << Greeting(m) >>
        /\ last'.op = "submit_prompt"
              => \E answer \in { session'.messages[last'.module][i].content :
                                    i \in 1..Len(session'.messages[last'.module]) } :
                    /\ session'.messages[last'.module]
                          = session.messages[last'.module]
                            \o << Turn("user", last'.question), Turn("assistant", answer) >>
                    /\ \A m \in Modules \ {last'.module} :
                          session'.messages[m] = session.messages[m] ]_vars

-----------------------------------------------------------------------------
(* The streaming chat endpoint beside the sync script (specification        *)
(* SpecStream)                                                              *)

\* POST /api/chat/stream, the response read to its end
ChatStream(m, message, n, raises, fail) ==
    \E response \in {ChatStreamRun(cache, qdrant, m, message,
                                    Stream(message, n, raises), fail)} :
        /\ cache' = response.cache
        /\ last' = [NoCall EXCEPT !.op = "chat_stream", !.module = m,
                                  !.question = message, !.fail = fail,
                                  !.success = response.success,
                                  !.raised = response.success /\ raises,
                                  !.events = response.events]
        /\ UNCHANGED <<folder, qdrant, inflight, session>>

NextStream ==
    \/ \E m \in QueryModules, f \in FileNames : \E fs \in FileStates(m, f) : EditFolder(m, f, fs)
    \/ \E m \in QueryModules, clear_first \in BOOLEAN :
          \E hasDocx \in HasDocxChoices(folder[m], FileNames) :
             SyncModule(m, clear_first, hasDocx, NoFail)
    \/ \E m \in QueryModules, message \in QueryQuestions :
          \E fail \in StatusFails(m), n \in 0..MaxFragments, raises \in BOOLEAN :
             ChatStream(m, message, n, raises, fail)

SpecStream == Init /\ [][NextStream]_vars

\* C27: the events of a streaming chat response end with one terminal
\* event and hold no other: 'done', after all the chunk events, when the
\* generation ran to its end; 'error' when the module's resources did not
\* load or the generation failed; every event before it is a chunk event.
C27_OneTerminalEvent ==
    last.op = "chat_stream"
    => LET events == last.events
           n == Len(events)
       IN  /\ n >= 1
           /\ events[n].type \in {"done", "error"}
           /\ \A i \in 1..(n - 1) : events[i].type = "chunk"
           /\ events[n].type = "error" <=> (~last.success \/ last.raised)

\* a response whose generation failed after two chunk events
C27_Witness ==
    /\ last.op = "chat_stream" /\ last.raised
    /\ Len(last.events) = 3 /\ last.events[2].type = "chunk"

-----------------------------------------------------------------------------
(* Failed single-file syncs (specification Spec) *)

\* C28: a sync_single_file that returns success = false (file not found,
\* unsupported or unparsable file, embedding or upsert failure) leaves the
\* collection's contents as they were before the call
C28_FailedSyncKeepsCollection ==
    [][ (last'.op = "sync_single_file" /\ ~last'.raised /\ ~last'.success)
        => qdrant' = qdrant ]_vars

-----------------------------------------------------------------------------
(* add_documents failing part-way, alone and under its callers *)

NextBatch ==
    \/ \E f \in FileNames : \E fs \in FileStates("cgi", f) : EditFolder("cgi", f, fs)
    \/ \E documents \in StoreDocuments(qdrant, "cgi"), batch_size \in 1..MaxPoints :
          \E fail \in StoreAddFails(documents, batch_size) :
             StoreAddDocuments("cgi", documents, batch_size, fail)
    \/ \E clear_first \in BOOLEAN :
          \E hasDocx \in HasDocxChoices(folder["cgi"], FileNames),
             fail \in SyncModuleFails(folder["cgi"], clear_first) :
             SyncModule("cgi", clear_first, hasDocx, fail)
    \/ \E f \in FileNames :
          \E hasDocx \in HasDocxChoices(folder["cgi"], {f}),
             fail \in SyncSingleFileFails(folder["cgi"], f) :
             SyncSingleFile("cgi", f, hasDocx, fail)

SpecBatch == Init /\ [][NextBatch]_vars

\* the number of chunks of file f in a list of chunks
RECURSIVE ChunksOfFile(_, _)
ChunksOfFile(documents, f) ==
    IF documents = << >> THEN 0
    ELSE (IF Head(documents).file_name = f THEN 1 ELSE 0) + ChunksOfFile(Tail(documents), f)

\* C29: add_documents writes in whole batches in input order and is not
\* rolled back: when the embedding or the upsert of batch j fails, the call
\* raises, the collection keeps what it had and has gained exactly the chunks
\* of the batches before j, none of batch j or later; and the result a sync
\* hands back after such a failure counts no chunk in chunks_added
C29_WholeBatchesNoRollback ==
    [][ /\ (last'.op = "add_documents" /\ last'.fail = "batch")
           => LET name == CollectionName(last'.module)
                  written == SubSeq(last'.documents, 1, last'.at * last'.batch_size)
              IN  /\ last'.raised
                  /\ qdrant'[name].exists
                  /\ qdrant[name].points \subseteq qdrant'[name].points
                  /\ Count(qdrant'[name]) = Count(qdrant[name]) + Len(written)
                  /\ \A f \in FileNames :
                        Cardinality(FilePoints(qdrant'[name], f))
                            = Cardinality(FilePoints(qdrant[name], f))
                              + ChunksOfFile(written, f)
                  /\ \A other \in DOMAIN qdrant \ {name} : qdrant'[other] = qdrant[other]
        /\ (last'.op \in {"sync_module", "sync_single_file"}
            /\ last'.error = "embedding or upsert failed")
           => last'.chunks_added = 0 /\ ~last'.success ]_vars

\* an add_documents of three chunks in batches of two failed at the second
\* batch and the two chunks of the first batch are in the collection
C29_Witness ==
    /\ last.op = "add_documents" /\ last.fail = "batch" /\ last.raised
    /\ last.at = 1 /\ last.batch_size = 2 /\ Len(last.documents) = 3
    /\ Count(qdrant[CollectionName(last.module)]) = 2

-----------------------------------------------------------------------------
(* Two single-file syncs in progress at once *)

\* sync_single_file up to the return of delete_by_file
SyncSingleFileBegin(p, m, f, fail) ==
    \E deleted \in {SyncSingleFileDelete(folder[m], qdrant, m, f, fail)} :
        /\ inflight[p].op = "idle"
        /\ qdrant' = deleted.q
        /\ IF deleted.done
           THEN /\ last' = deleted.ret
                /\ inflight' = inflight
           ELSE /\ last' = [NoCall EXCEPT !.op = "sync_single_file_delete",
                                          !.module = m, !.file = f,
                                          !.replaced = deleted.ret.replaced]
                /\ inflight' = [inflight EXCEPT ![p] =
                                    [Idle EXCEPT !.op = "sync_single_file", !.module = m,
                                                 !.file = f,
                                                 !.replaced = deleted.ret.replaced]]
        /\ UNCHANGED <<folder, cache, session>>

\* sync_single_file from the return of delete_by_file to its own return
SyncSingleFileEnd(p, hasDocx, fail) ==
    LET run == inflight[p]
        call == [NoCall EXCEPT !.op = "sync_single_file", !.module = run.module,
                               !.file = run.file, !.replaced = run.replaced]
    IN  /\ run.op = "sync_single_file"
        /\ \E added \in {SyncSingleFileAdd(call, folder[run.module], qdrant, run.module,
                                            run.file, hasDocx, fail)} :
              /\ TotalPoints(added.q) <= MaxPoints
              /\ qdrant' = added.q
              /\ last' = added.ret
        /\ inflight' = [inflight EXCEPT ![p] = Idle]
        /\ UNCHANGED <<folder, cache, session>>

\* the full sync that first creates the collection runs while no single-file
\* sync is in progress: the two single-file syncs are the only writers that
\* overlap
NextRace ==
    \/ \E f \in FileNames : \E fs \in FileStates("cgi", f) : EditFolder("cgi", f, fs)
    \/ \E hasDocx \in HasDocxChoices(folder["cgi"], FileNames) :
          /\ \A p \in Procs : inflight[p].op = "idle"
          /\ SyncModule("cgi", FALSE, hasDocx, NoFail)
    \/ \E p \in Procs, f \in FileNames, fail \in {NoFail, DeleteFail} :
          SyncSingleFileBegin(p, "cgi", f, fail)
    \/ \E p \in Procs :
          \E hasDocx \in HasDocxChoices(folder["cgi"], {inflight[p].file} \cap FileNames),
             fail \in {NoFail, KeyFail("-"), IndexFail("-"), BatchFail("-", 0)} :
             SyncSingleFileEnd(p, hasDocx, fail)

SpecRace == Init /\ [][NextRace]_vars

\* C30: nothing serializes writers. When two sync_single_file runs for the
\* same file and module have both called delete_by_file before either calls
\* add_documents, and both succeed, the collection holds two copies of the
\* file's chunks: twice the number of chunks of the file, each chunk twice.
\* (The run of p is past its delete while the other run returns, and then
\* returns itself.)
C30_InterleavedSyncsDuplicate ==
    [][ \A p \in Procs :
          ( /\ inflight[p].op = "sync_single_file" /\ inflight'[p].op = "idle"
            /\ last.op = "sync_single_file" /\ last.success
            /\ last.module = inflight[p].module /\ last.file = inflight[p].file
            /\ last'.success )
          => LET points == FilePoints(qdrant'[CollectionName(last.module)], last.file)
             IN  /\ last'.chunks_added = last.chunks_added
                 /\ Cardinality(points) = 2 * last'.chunks_added
                 /\ \A x \in points :
                       Cardinality({ y \in points : Payload(y) = Payload(x) }) = 2 ]_vars

\* both runs have returned success and the file's chunks are there twice
C30_Witness ==
    /\ last.op = "sync_single_file" /\ last.success /\ last.chunks_added >= 1
    /\ \A p \in Procs : inflight[p].op = "idle"
    /\ Cardinality(FilePoints(qdrant[CollectionName(last.module)], last.file))
         = 2 * last.chunks_added

====
